---- MODULE Spec2Model ----
(***************************************************************************)
(* A model of the herbal-tea knowledge-graph project:                      *)
(*   - the ingestion script (src/main.py): tokenizing the two columns of   *)
(*     the relations file, merging the nodes in batches, building and      *)
(*     creating the relationships;                                         *)
(*   - the vector manager (src/embedding/vector_manager.py): search and    *)
(*     refresh_embeddings;                                                 *)
(*   - the question answering service (src/utils/KBQAService.py) behind    *)
(*     the HTTP endpoint (src/controller.py).                              *)
(*                                                                         *)
(* Text is modelled as sequences of one-character strings.  The module is  *)
(* ASCII: the ideographic comma U+3001 that separates the tokens of a      *)
(* field is written ",", and the Chinese labels are transliterated.        *)
(***************************************************************************)
EXTENDS Naturals, Integers, Sequences, FiniteSets, TLC

\* ------------------------------------------------------------------ bounds
MaxFieldLen == 3        \* the tokenizer is applied to every text up to this length
MaxRetryTimes == 3      \* retry_times ranges over 1..MaxRetryTimes
MaxBatchSize == 2       \* batch_size ranges over 1..MaxBatchSize
MaxCorpus == 3          \* the nodes of the indexed label
MaxTopK == 2            \* top_k ranges over 1..MaxTopK
MaxRows == 2            \* a query returns up to this many rows

VARIABLES
    \* --- split_chinese_herbs applied to one value
    herb_str,            \* the argument
    tokens,              \* the list returned, or "unset" before the call
    \* --- the ingestion run (main)
    cfg,                 \* BATCH_CONFIG / BUSINESS_CONFIG: retry_times, batch_size, clear_db
    df_basic,            \* the relations file: its columns and its rows
    drink_herb_data,     \* the rows main made of the file, <<>> before it is read
    pc,                  \* the position of main
    run,                 \* which run of the script this is
    exit,                \* how the current run ended: "none", "ok", "error"
    connOpen,            \* conn_manager.driver is connected
    nodes,               \* the store's nodes: records [label, key, id]
    rels,                \* the store's relationships: records [id, src, dst]
    nextId,              \* the store's id counter
    node_list,           \* the node list of the node-merge call in progress
    merged,              \* how many entries of the list in progress are done
    fails,               \* failed attempts of the batch in progress
    lastBatch,           \* the last batch finished: [phase, fails, result]
    recovered,           \* a batch of this run was done on its last allowed attempt
    drink_unique_to_id,  \* the mapping returned by the first node merge
    herb_unique_to_id,   \* the mapping returned by the second node merge
    rel_list,            \* the relationships enqueued for creation
    skipped_rel,         \* the counter of skipped relationships
    firstRun,            \* what the first complete run returned
    \* --- the vector manager (search, refresh_embeddings)
    hasVec,              \* which nodes of the indexed label have an embedding
    score,               \* the similarity of each node's vector to the query
    top_k,               \* the top_k of the searches
    lastSearch,          \* the last call of search and what came of it
    found,               \* per threshold, how many candidates a search returned
    force_update,        \* the argument of refresh_embeddings
    rPc,                 \* the position of refresh_embeddings
    rNodes,              \* the names it selected
    rIdx,                \* the place of its loop in them
    count,               \* its counter
    rFailed,             \* the names whose embedding failed
    rWritten,            \* the names whose vector it wrote
    ret,                 \* what it returned
    printed,             \* the count it printed at the end
    \* --- one request of the question answering endpoint
    qPc,                 \* the position of the request
    question,            \* the question asked
    matched_info,        \* the hint the endpoint built from the search
    llmCalls,            \* the requests sent to the language model, in order
    cypher,              \* the translated query
    execOutcome,         \* what the store did with the query
    graph_data,          \* the rows _execute_cypher returned
    final_answer,        \* the text answer() returned
    qRaised              \* the exception that left answer(), or "none"

tokVars == <<herb_str, tokens>>
ingVars == <<cfg, df_basic, drink_herb_data, pc, run, exit, connOpen, nodes, rels, nextId,
             node_list, merged, fails, lastBatch, recovered,
             drink_unique_to_id, herb_unique_to_id, rel_list, skipped_rel, firstRun>>
vecVars == <<hasVec, score, top_k, lastSearch, found, force_update, rPc, rNodes, rIdx,
             count, rFailed, rWritten, ret, printed>>
qaVars == <<qPc, question, matched_info, llmCalls, cypher, execOutcome, graph_data,
            final_answer, qRaised>>
vars == <<tokVars, ingVars, vecVars, qaVars>>

\* ------------------------------------------------------------- text values
Delim == ","            \* the token separator (U+3001 in the source)
Space == " "
Alphabet == {"A", "n", "a", Space, Delim}

\* A cell of the data frame: None, a float NaN, or text.
NoneVal == [kind |-> "none", s |-> <<>>]
NaNVal == [kind |-> "nan", s |-> <<>>]
Str(s) == [kind |-> "str", s |-> s]

RECURSIVE SeqsUpTo(_, _)
SeqsUpTo(S, n) ==
    IF n = 0 THEN {<<>>}
    ELSE LET shorter == SeqsUpTo(S, n - 1)
         IN  shorter \cup {Append(s, c) : s \in {t \in shorter : Len(t) = n - 1}, c \in S}

Range(s) == {s[i] : i \in 1..Len(s)}
NoDup(s) == \A i, j \in 1..Len(s) : i # j => s[i] # s[j]

\* str.strip(): leading and trailing whitespace removed.
RECURSIVE LStrip(_)
LStrip(s) == IF s # <<>> /\ Head(s) = Space THEN LStrip(Tail(s)) ELSE s

RECURSIVE RStrip(_)
RStrip(s) ==
    IF s # <<>> /\ s[Len(s)] = Space THEN RStrip(SubSeq(s, 1, Len(s) - 1)) ELSE s

Strip(s) == RStrip(LStrip(s))

\* str.split(sep): the pieces between the separators; "".split(sep) is [""].
RECURSIVE SplitAcc(_, _, _)
SplitAcc(s, sep, cur) ==
    IF s = <<>> THEN <<cur>>
    ELSE IF Head(s) = sep THEN <<cur>> \o SplitAcc(Tail(s), sep, <<>>)
    ELSE SplitAcc(Tail(s), sep, Append(cur, Head(s)))

Split(s, sep) == SplitAcc(s, sep, <<>>)

\* list(set(xs)): the distinct elements of xs, each once.  Python leaves the
\* order of a set unspecified; the order taken here is that of first occurrence,
\* and no property below reads the order of a token list.  (The order of the
\* node lists handed to the store is chosen freely, see NodeLists.)
RECURSIVE Distinct(_)
Distinct(xs) ==
    IF xs = <<>> THEN <<>>
    ELSE LET init == SubSeq(xs, 1, Len(xs) - 1)
             d == Distinct(init)
         IN  IF xs[Len(xs)] \in Range(d) THEN d ELSE Append(d, xs[Len(xs)])

\* [h.strip() for h in pieces if h.strip()]
RECURSIVE StripNonEmpty(_)
StripNonEmpty(pieces) ==
    IF pieces = <<>> THEN <<>>
    ELSE LET h == Strip(Head(pieces))
         IN  (IF h # <<>> THEN <<h>> ELSE <<>>) \o StripNonEmpty(Tail(pieces))

NanText == <<"n", "a", "n">>

\* The whole-value tests of split_chinese_herbs (lines 81-90): TRUE when the
\* function returns [] before splitting.
IsBlankValue(v) ==
    \/ v.kind = "none"
    \/ v.kind = "nan"
    \/ Strip(v.s) = <<>>
    \/ Strip(v.s) = NanText

split_chinese_herbs(v) ==
    IF IsBlankValue(v) THEN <<>>
    ELSE Distinct(StripNonEmpty(Split(Strip(v.s), Delim)))

\* ------------------------------------------------ the relations file (rows)
\* A row of df_basic as main reads it (lines 121-127).
Row(d, h) == [drink_unique_val |-> d, herbs_str |-> h]

Datasets ==
    { \* two rows whose second column repeats a token within and across rows
      << Row(Str(<<"X">>), Str(<<"A", Delim, "B", Delim, "A">>)),
         Row(Str(<<"Y">>), Str(<<"A", Delim, "C">>)) >>,
      \* a multi-valued first column, and a row with an empty first cell
      << Row(Str(<<"X", Delim, "Y">>), Str(<<"A", Delim, "B">>)),
         Row(NaNVal, Str(<<"B">>)) >>,
      \* a "nan" piece inside a field, a blank first cell, an empty second cell
      << Row(Str(<<"X">>), Str(<<"A", Delim, "n", "a", "n">>)),
         Row(Str(<<Space>>), Str(<<"A">>)),
         Row(Str(<<"Y">>), NaNVal) >>,
      \* the same name in both columns
      << Row(Str(<<"A">>), Str(<<Space, "A", Space>>)) >> }

\* BUSINESS_CONFIG (lines 28-41): the two labels.
drink_label == "zhongyaocai"
herb_label == "daichayin"

\* BUSINESS_CONFIG (lines 34-35): the names of the two columns main reads.
basic_drink_col == "zhongyaocai"
basic_herb_col == "daichayin"

\* The relations file as pd.read_csv gives it (line 120): the names of its
\* columns and its rows.  A row is written by its cells under the two names
\* main asks for; a column the file does not have gives no cell (None).
CsvFile(cols, rows) == [columns |-> cols, rows |-> rows]

GoodFiles == {CsvFile({basic_drink_col, basic_herb_col}, rows) : rows \in Datasets}

\* A file without one of the two columns, and a file with no row.
BadFiles ==
    { CsvFile({basic_drink_col, "other"}, << Row(Str(<<"X">>), NoneVal) >>),
      CsvFile({"other", basic_herb_col}, << Row(NoneVal, Str(<<"A">>)) >>),
      CsvFile({basic_drink_col, basic_herb_col}, <<>>) }

MissingColumn(df) == ~({basic_drink_col, basic_herb_col} \subseteq df.columns)
EmptyFrame(df) == df.rows = <<>>

\* What lines 121-127 do with the frame: "rows" when the list of row
\* dictionaries is built, "raise" when an exception leaves the statement.
\* row[col] raises KeyError for a column the frame does not have.  On a frame
\* with no row, DataFrame.apply does not call the function on any row, and what
\* it returns depends on the installed pandas (which the repository does not
\* pin): an empty Series, whose tolist() is the empty list, or a copy of the
\* frame, which has no tolist and raises AttributeError.
ReadOutcomes(df) ==
    IF EmptyFrame(df) THEN {"rows", "raise"}
    ELSE IF MissingColumn(df) THEN {"raise"}
    ELSE {"rows"}

\* ---------------------------------------------------------- node lists
\* all_drinks / all_herbs (lines 133-138, 157-159): the set of the tokens of
\* one column over all rows.
ColumnTokens(rows, col) ==
    UNION {Range(split_chinese_herbs(rows[i][col])) : i \in 1..Len(rows)}

Perms(S) ==
    {s \in [1..Cardinality(S) -> S] : \A i, j \in 1..Cardinality(S) : i # j => s[i] # s[j]}

RECURSIVE ConcatRows(_, _, _)
ConcatRows(rows, col, i) ==
    IF i > Len(rows) THEN <<>>
    ELSE split_chinese_herbs(rows[i][col]) \o ConcatRows(rows, col, i + 1)

\* A variant that extends a list row by row instead of updating a set.
NodeLists_extend(rows, col) == {ConcatRows(rows, col, 1)}

\* drink_nodes / herb_nodes (lines 141-144, 160-163): one node per element of
\* the set, in the order Python iterates the set, which is any order.
NodeLists(rows, col) == Perms(ColumnTokens(rows, col))

\* ------------------------------------------------- relationship building
\* The loops of lines 177-222 over one row, given the two mappings.  The
\* result is [rels: the entries appended to rel_list, skipped: the increments
\* of skipped_rel].
RECURSIVE HerbLoop(_, _, _, _)
HerbLoop(drink_id, herb_names, hmap, j) ==
    IF j > Len(herb_names) THEN [rels |-> <<>>, skipped |-> 0]
    ELSE LET rest == HerbLoop(drink_id, herb_names, hmap, j + 1)
         IN  IF herb_names[j] \notin DOMAIN hmap
             THEN [rels |-> rest.rels, skipped |-> rest.skipped + 1]
             ELSE [rels |-> <<[src |-> drink_id, dst |-> hmap[herb_names[j]]]>> \o rest.rels,
                   skipped |-> rest.skipped]

RECURSIVE DrinkLoop(_, _, _, _, _)
DrinkLoop(split_drinks, herb_names, dmap, hmap, i) ==
    IF i > Len(split_drinks) THEN [rels |-> <<>>, skipped |-> 0]
    ELSE LET rest == DrinkLoop(split_drinks, herb_names, dmap, hmap, i + 1)
         IN  IF split_drinks[i] \notin DOMAIN dmap
             THEN [rels |-> rest.rels, skipped |-> rest.skipped + 1]
             ELSE LET inner == HerbLoop(dmap[split_drinks[i]], herb_names, hmap, 1)
                  IN  [rels |-> inner.rels \o rest.rels,
                       skipped |-> inner.skipped + rest.skipped]

\* Lines 183-185: the first cell is None, NaN or blank text.
DrinkCellBlank(v) == v.kind = "none" \/ v.kind = "nan" \/ Strip(v.s) = <<>>

RowRels(item, dmap, hmap) ==
    LET split_drinks == split_chinese_herbs(item.drink_unique_val)
        herb_names == split_chinese_herbs(item.herbs_str)
    IN  IF DrinkCellBlank(item.drink_unique_val) THEN [rels |-> <<>>, skipped |-> 1]
        ELSE IF split_drinks = <<>> THEN [rels |-> <<>>, skipped |-> 1]
        ELSE IF herb_names = <<>> THEN [rels |-> <<>>, skipped |-> 1]
        ELSE DrinkLoop(split_drinks, herb_names, dmap, hmap, 1)

RECURSIVE BuildRelList(_, _, _, _)
BuildRelList(rows, dmap, hmap, i) ==
    IF i > Len(rows) THEN [rels |-> <<>>, skipped |-> 0]
    ELSE LET r == RowRels(rows[i], dmap, hmap)
             rest == BuildRelList(rows, dmap, hmap, i + 1)
         IN  [rels |-> r.rels \o rest.rels, skipped |-> r.skipped + rest.skipped]

\* ------------------------------------------------- the vector manager
Names == 1..MaxCorpus
Levels == {0, 1, 2}     \* similarity scores and thresholds, lowest to highest

NoSearch ==
    [called |-> FALSE, threshold |-> 0, embed |-> "none", queried |-> FALSE,
     raised |-> FALSE, matches |-> <<>>]
NoRet == [kind |-> "unset"]
NoneRet == [kind |-> "None"]
IntRet(n) == [kind |-> "int", v |-> n]

\* The values of the parts of the state a specification does not use.
TokIdle ==
    /\ herb_str = NoneVal
    /\ tokens = "unset"

SearchIdle ==
    /\ score = [n \in Names |-> 0]
    /\ top_k = 1
    /\ lastSearch = NoSearch
    /\ found = [t \in Levels |-> -1]

RefreshIdle ==
    /\ force_update = FALSE
    /\ rPc = "idle"
    /\ rNodes = <<>>
    /\ rIdx = 1
    /\ count = 0
    /\ rFailed = {}
    /\ rWritten = {}
    /\ ret = NoRet
    /\ printed = NoRet

VecIdle ==
    /\ hasVec = [n \in Names |-> FALSE]
    /\ SearchIdle
    /\ RefreshIdle

NoOutcome == [kind |-> "none"]

QaIdle ==
    /\ qPc = "idle"
    /\ question = "none"
    /\ matched_info = <<>>
    /\ llmCalls = <<>>
    /\ cypher = <<>>
    /\ execOutcome = NoOutcome
    /\ graph_data = <<>>
    /\ final_answer = "none"
    /\ qRaised = "none"

\* ------------------------------------------------------ the graph store
\* MERGE (n:label {key}) of one node: the node of that label and key is reused
\* when there is one, created under the next id otherwise.
HasNode(ns, label, key) == \E n \in ns : n.label = label /\ n.key = key

\* A variant that creates the node whether or not it exists.
MergeNode_create(st, label, key) ==
    [nodes |-> st.nodes \cup {[label |-> label, key |-> key, id |-> st.nextId + 1]},
     nextId |-> st.nextId + 1]

MergeNode(st, label, key) ==
    IF HasNode(st.nodes, label, key) THEN st
    ELSE [nodes |-> st.nodes \cup {[label |-> label, key |-> key, id |-> st.nextId + 1]},
          nextId |-> st.nextId + 1]

\* One batch of a node merge, one transaction.
RECURSIVE MergeBatch(_, _, _)
MergeBatch(st, label, batch) ==
    IF batch = <<>> THEN st
    ELSE MergeBatch(MergeNode(st, label, Head(batch)), label, Tail(batch))

NodeIds(ns, label, key) == {n.id : n \in {m \in ns : m.label = label /\ m.key = key}}
IdOf(ns, label, key) == CHOOSE i \in NodeIds(ns, label, key) : TRUE

\* One batch of relationship creation, one transaction: every entry creates a
\* relationship.
RECURSIVE CreateRelBatch(_, _)
CreateRelBatch(rs, batch) ==
    IF batch = <<>> THEN rs
    ELSE CreateRelBatch(
             rs \cup {[id |-> Cardinality(rs) + 1, src |-> Head(batch).src,
                       dst |-> Head(batch).dst]},
             Tail(batch))

\* What the batch handler does with the outcome of one store call made after
\* `failed` failed attempts of the same batch: the batch is done, is tried
\* again, or the handler gives up and raises.
BatchStep(failed, ok, retry_times) ==
    IF ok THEN "done"
    ELSE IF failed + 1 >= retry_times THEN "fatal" ELSE "retry"

Min(a, b) == IF a <= b THEN a ELSE b

\* ------------------------------------------------------ the ingestion run
\* The script is run twice in a row.
Runs == 1..2

Configs ==
    [retry_times : 1..MaxRetryTimes, batch_size : 1..MaxBatchSize, clear_db : BOOLEAN]

NoBatch == [phase |-> "none", fails |-> 0, result |-> "none"]
NoRun == [done |-> FALSE, run |-> 0, drinks |-> <<>>, herbs |-> <<>>, count |-> 0]

InitIngest ==
    /\ cfg \in Configs
    /\ df_basic \in GoodFiles \cup BadFiles
    /\ drink_herb_data = <<>>
    /\ pc = "start"
    /\ run = 1
    /\ exit = "none"
    /\ connOpen = FALSE
    /\ nodes = {}
    /\ rels = {}
    /\ nextId = 0
    /\ node_list = <<>>
    /\ merged = 0
    /\ fails = 0
    /\ lastBatch = NoBatch
    /\ recovered = FALSE
    /\ drink_unique_to_id = <<>>
    /\ herb_unique_to_id = <<>>
    /\ rel_list = <<>>
    /\ skipped_rel = 0
    /\ firstRun = NoRun
    /\ TokIdle
    /\ VecIdle
    /\ QaIdle

\* A variant in which a failed node merge is logged and the relationships are
\* built all the same.
AfterException_build(at) ==
    IF at \in {"merge_drinks", "merge_herbs"} THEN "build_rels" ELSE "finally"

\* A variant that goes on to the next module of main after a failed one.
AfterException_continue(at) ==
    IF at = "merge_drinks" THEN "herbs"
    ELSE IF at = "merge_herbs" THEN "build_rels"
    ELSE "finally"

\* Lines 236-243: an exception of a step ends the run; the finally clause is
\* all that is left to do.
AfterException(at) == "finally"

\* Module 1 (lines 100-108).
Connect ==
    /\ pc = "start"
    /\ connOpen' = TRUE
    /\ pc' = "clear"
    /\ UNCHANGED <<cfg, df_basic, drink_herb_data, run, exit, nodes, rels, nextId, node_list,
                   merged, fails, lastBatch, recovered, drink_unique_to_id,
                   herb_unique_to_id, rel_list, skipped_rel, firstRun, tokVars, vecVars, qaVars>>

\* Module 1, connect() raising: the handlers log, the finally clause finds no
\* driver to close.
ConnectFail ==
    /\ pc = "start"
    /\ pc' = AfterException(pc)
    /\ exit' = "error"
    /\ UNCHANGED <<cfg, df_basic, drink_herb_data, run, connOpen, nodes, rels, nextId, node_list,
                   merged, fails, lastBatch, recovered, drink_unique_to_id,
                   herb_unique_to_id, rel_list, skipped_rel, firstRun, tokVars, vecVars,
                   qaVars>>

\* Module 2 (lines 111-116).
ClearDb ==
    /\ pc = "clear"
    /\ nodes' = IF cfg.clear_db THEN {} ELSE nodes
    /\ rels' = IF cfg.clear_db THEN {} ELSE rels
    /\ pc' = "read"
    /\ UNCHANGED <<cfg, df_basic, drink_herb_data, run, exit, connOpen, nextId, node_list,
                   merged, fails, lastBatch, recovered, drink_unique_to_id,
                   herb_unique_to_id, rel_list, skipped_rel, firstRun, tokVars, vecVars, qaVars>>

\* Modules 3 and 4 up to the call (lines 119-144): the rows are read and the
\* first column's node list is built.
CollectDrinks ==
    /\ pc = "read"
    /\ "rows" \in ReadOutcomes(df_basic)
    /\ drink_herb_data' = df_basic.rows
    /\ \E nl \in NodeLists(df_basic.rows, "drink_unique_val") : node_list' = nl
    /\ merged' = 0
    /\ fails' = 0
    /\ drink_unique_to_id' = <<>>
    /\ pc' = "merge_drinks"
    /\ UNCHANGED <<cfg, df_basic, run, exit, connOpen, nodes, rels, nextId,
                   lastBatch, recovered, herb_unique_to_id, rel_list,
                   skipped_rel, firstRun, tokVars, vecVars, qaVars>>

\* Module 3 raising (lines 120-127, 238-239): the handler logs and the
\* finally clause is next.
ReadFail ==
    /\ pc = "read"
    /\ "raise" \in ReadOutcomes(df_basic)
    /\ pc' = AfterException(pc)
    /\ exit' = "error"
    /\ UNCHANGED <<cfg, df_basic, drink_herb_data, run, connOpen, nodes, rels, nextId,
                   node_list, merged, fails, lastBatch, recovered, drink_unique_to_id,
                   herb_unique_to_id, rel_list, skipped_rel, firstRun, tokVars, vecVars,
                   qaVars>>

\* Module 5 up to the call (lines 157-163).
CollectHerbs ==
    /\ pc = "herbs"
    /\ \E nl \in NodeLists(drink_herb_data, "herbs_str") : node_list' = nl
    /\ merged' = 0
    /\ fails' = 0
    /\ herb_unique_to_id' = <<>>
    /\ pc' = "merge_herbs"
    /\ UNCHANGED <<cfg, df_basic, drink_herb_data, run, exit, connOpen, nodes, rels, nextId,
                   lastBatch, recovered, drink_unique_to_id, rel_list,
                   skipped_rel, firstRun, tokVars, vecVars, qaVars>>

PhaseLabel == IF pc = "merge_drinks" THEN drink_label ELSE herb_label

\* The retry_times argument of the batch calls (lines 150, 169, 229).
RetryArg == cfg.retry_times

\* One store call of batch_merge_nodes (lines 145-152, 164-171): the next
\* batch_size entries of the list, merged in one transaction or not at all.
MergeCall(ok) ==
    /\ pc \in {"merge_drinks", "merge_herbs"}
    /\ merged < Len(node_list)
    /\ LET batch == SubSeq(node_list, merged + 1,
                           Min(merged + cfg.batch_size, Len(node_list)))
           st == MergeBatch([nodes |-> nodes, nextId |-> nextId], PhaseLabel, batch)
           got == [k \in Range(batch) |-> IdOf(st.nodes, PhaseLabel, k)]
           step == BatchStep(fails, ok, RetryArg)
       IN  /\ nodes' = IF step = "done" THEN st.nodes ELSE nodes
           /\ nextId' = IF step = "done" THEN st.nextId ELSE nextId
           /\ merged' = IF step = "done" THEN merged + Len(batch) ELSE merged
           /\ fails' = IF step = "retry" THEN fails + 1 ELSE 0
           /\ lastBatch' = IF step = "done" THEN [phase |-> pc, fails |-> fails, result |-> "ok"]
                           ELSE IF step = "fatal"
                           THEN [phase |-> pc, fails |-> fails + 1, result |-> "fatal"]
                           ELSE lastBatch
           /\ recovered' = (recovered \/ (step = "done" /\ fails >= 1 /\ fails = RetryArg - 1))
           /\ drink_unique_to_id' = IF step = "done" /\ pc = "merge_drinks"
                                    THEN got @@ drink_unique_to_id ELSE drink_unique_to_id
           /\ herb_unique_to_id' = IF step = "done" /\ pc = "merge_herbs"
                                   THEN got @@ herb_unique_to_id ELSE herb_unique_to_id
           /\ pc' = IF step = "fatal" THEN AfterException(pc) ELSE pc
           /\ exit' = IF step = "fatal" THEN "error" ELSE exit
    /\ UNCHANGED <<cfg, df_basic, drink_herb_data, run, connOpen, rels, node_list, rel_list,
                   skipped_rel, firstRun, tokVars, vecVars, qaVars>>

MergeOk == MergeCall(TRUE)
MergeFail == MergeCall(FALSE)

\* batch_merge_nodes returns the mapping (lines 145, 153).
DrinksMerged ==
    /\ pc = "merge_drinks"
    /\ merged = Len(node_list)
    /\ pc' = "herbs"
    /\ UNCHANGED <<cfg, df_basic, drink_herb_data, run, exit, connOpen, nodes, rels, nextId,
                   node_list, merged, fails, lastBatch, recovered,
                   drink_unique_to_id, herb_unique_to_id, rel_list, skipped_rel,
                   firstRun, tokVars, vecVars, qaVars>>

\* batch_merge_nodes returns the mapping (lines 164, 172).
HerbsMerged ==
    /\ pc = "merge_herbs"
    /\ merged = Len(node_list)
    /\ pc' = "build_rels"
    /\ firstRun' = IF firstRun.done THEN firstRun
                   ELSE [done |-> TRUE, run |-> run, drinks |-> drink_unique_to_id,
                         herbs |-> herb_unique_to_id, count |-> Cardinality(nodes)]
    /\ UNCHANGED <<cfg, df_basic, drink_herb_data, run, exit, connOpen, nodes, rels, nextId,
                   node_list, merged, fails, lastBatch, recovered,
                   drink_unique_to_id, herb_unique_to_id, rel_list, skipped_rel,
                   tokVars, vecVars, qaVars>>

\* Module 6 up to the call (lines 177-225, 233-234).
BuildRels ==
    /\ pc = "build_rels"
    /\ LET r == BuildRelList(drink_herb_data, drink_unique_to_id, herb_unique_to_id, 1)
       IN  /\ rel_list' = r.rels
           /\ skipped_rel' = r.skipped
           /\ pc' = IF r.rels # <<>> THEN "create_rels" ELSE "finally"
           /\ exit' = IF r.rels # <<>> THEN exit ELSE "ok"
    /\ merged' = 0
    /\ fails' = 0
    /\ UNCHANGED <<cfg, df_basic, drink_herb_data, run, connOpen, nodes, rels, nextId,
                   node_list, lastBatch, recovered, drink_unique_to_id,
                   herb_unique_to_id, firstRun, tokVars, vecVars, qaVars>>

\* One store call of batch_create_relationships (lines 226-231).
RelCall(ok) ==
    /\ pc = "create_rels"
    /\ merged < Len(rel_list)
    /\ LET batch == SubSeq(rel_list, merged + 1,
                           Min(merged + cfg.batch_size, Len(rel_list)))
           step == BatchStep(fails, ok, RetryArg)
       IN  /\ rels' = IF step = "done" THEN CreateRelBatch(rels, batch) ELSE rels
           /\ merged' = IF step = "done" THEN merged + Len(batch) ELSE merged
           /\ fails' = IF step = "retry" THEN fails + 1 ELSE 0
           /\ lastBatch' = IF step = "done" THEN [phase |-> pc, fails |-> fails, result |-> "ok"]
                           ELSE IF step = "fatal"
                           THEN [phase |-> pc, fails |-> fails + 1, result |-> "fatal"]
                           ELSE lastBatch
           /\ recovered' = (recovered \/ (step = "done" /\ fails >= 1 /\ fails = RetryArg - 1))
           /\ pc' = IF step = "fatal" THEN AfterException(pc) ELSE pc
           /\ exit' = IF step = "fatal" THEN "error" ELSE exit
    /\ UNCHANGED <<cfg, df_basic, drink_herb_data, run, connOpen, nodes, nextId, node_list,
                   drink_unique_to_id, herb_unique_to_id, rel_list, skipped_rel,
                   firstRun, tokVars, vecVars, qaVars>>

RelOk == RelCall(TRUE)
RelFail == RelCall(FALSE)

\* batch_create_relationships returns (line 232).
RelsCreated ==
    /\ pc = "create_rels"
    /\ merged = Len(rel_list)
    /\ pc' = "finally"
    /\ exit' = "ok"
    /\ UNCHANGED <<cfg, df_basic, drink_herb_data, run, connOpen, nodes, rels, nextId,
                   node_list, merged, fails, lastBatch, recovered,
                   drink_unique_to_id, herb_unique_to_id, rel_list, skipped_rel,
                   firstRun, tokVars, vecVars, qaVars>>

\* Lines 240-243.
Finally ==
    /\ pc = "finally"
    /\ connOpen' = FALSE
    /\ pc' = "closed"
    /\ UNCHANGED <<cfg, df_basic, drink_herb_data, run, exit, nodes, rels, nextId, node_list,
                   merged, fails, lastBatch, recovered, drink_unique_to_id,
                   herb_unique_to_id, rel_list, skipped_rel, firstRun, tokVars, vecVars, qaVars>>

\* The script is started again on the same file and the same store.
Rerun ==
    /\ pc = "closed"
    /\ run + 1 \in Runs
    /\ run' = run + 1
    /\ pc' = "start"
    /\ exit' = "none"
    /\ drink_herb_data' = <<>>
    /\ node_list' = <<>>
    /\ merged' = 0
    /\ fails' = 0
    /\ lastBatch' = NoBatch
    /\ recovered' = FALSE
    /\ drink_unique_to_id' = <<>>
    /\ herb_unique_to_id' = <<>>
    /\ rel_list' = <<>>
    /\ skipped_rel' = 0
    /\ UNCHANGED <<cfg, df_basic, connOpen, nodes, rels, nextId, firstRun,
                   tokVars, vecVars, qaVars>>

NextIngest ==
    \/ Connect
    \/ ConnectFail
    \/ ClearDb
    \/ CollectDrinks
    \/ ReadFail
    \/ MergeOk
    \/ MergeFail
    \/ DrinksMerged
    \/ CollectHerbs
    \/ HerbsMerged
    \/ BuildRels
    \/ RelOk
    \/ RelFail
    \/ RelsCreated
    \/ Finally
    \/ Rerun

SpecIngest == InitIngest /\ [][NextIngest]_vars

\* ----------------------------------- the ingestion run on a store in use
\* The store an earlier ingestion of the one-row file left: a node of each
\* label and the relationship between them.
EarlierStore ==
    [nodes |-> {[label |-> drink_label, key |-> <<"A">>, id |-> 1],
                [label |-> herb_label, key |-> <<"A">>, id |-> 2]},
     rels |-> {[id |-> 1, src |-> 1, dst |-> 2]},
     nextId |-> 2]

EmptyStore == [nodes |-> {}, rels |-> {}, nextId |-> 0]

\* The script is started on an empty store or on the earlier one, on one of
\* the given files.
InitOnStore(files) ==
    /\ cfg \in Configs
    /\ df_basic \in files
    /\ drink_herb_data = <<>>
    /\ pc = "start"
    /\ run = 1
    /\ exit = "none"
    /\ connOpen = FALSE
    /\ \E st \in {EmptyStore, EarlierStore} :
           /\ nodes = st.nodes
           /\ rels = st.rels
           /\ nextId = st.nextId
    /\ node_list = <<>>
    /\ merged = 0
    /\ fails = 0
    /\ lastBatch = NoBatch
    /\ recovered = FALSE
    /\ drink_unique_to_id = <<>>
    /\ herb_unique_to_id = <<>>
    /\ rel_list = <<>>
    /\ skipped_rel = 0
    /\ firstRun = NoRun
    /\ TokIdle
    /\ VecIdle
    /\ QaIdle

\* Runs on a file main cannot make rows of, or on the one-row file.
InitPreflight == InitOnStore(BadFiles \cup {f \in GoodFiles : Len(f.rows) = 1})

SpecPreflight == InitPreflight /\ [][NextIngest]_vars

\* One run, from its start to the closing of the connection, on any of the
\* files.  The finally clause (lines 240-243) runs whenever the try block is
\* left, so the run does not stop before it.
InitRun == InitOnStore(GoodFiles \cup BadFiles)

NextRun ==
    \/ Connect
    \/ ConnectFail
    \/ ClearDb
    \/ CollectDrinks
    \/ ReadFail
    \/ MergeOk
    \/ MergeFail
    \/ DrinksMerged
    \/ CollectHerbs
    \/ HerbsMerged
    \/ BuildRels
    \/ RelOk
    \/ RelFail
    \/ RelsCreated
    \/ Finally

SpecRun == InitRun /\ [][NextRun]_vars /\ WF_vars(Finally)

\* ------------------------------------------ the tokenizer on its own inputs
\* Some longer values beside every text of up to MaxFieldLen characters.
LongSamples ==
    { <<"A", Delim, "n", "a", "n">>,
      <<"n", "a", "n", Delim, "A">>,
      <<Space, "n", "a", "n", Space>>,
      <<"A", Delim, Space, "n", "a", "n", Space>>,
      <<"A", Delim, "a", Delim, "A">>,
      <<Space, "A", Space, Delim, Delim, "a", Space>> }

TokenInputs ==
    {NoneVal, NaNVal} \cup {Str(s) : s \in SeqsUpTo(Alphabet, MaxFieldLen) \cup LongSamples}

IngIdle ==
    /\ cfg = [retry_times |-> 1, batch_size |-> 1, clear_db |-> FALSE]
    /\ df_basic = CsvFile({}, <<>>)
    /\ drink_herb_data = <<>>
    /\ pc = "idle"
    /\ run = 1
    /\ exit = "none"
    /\ connOpen = FALSE
    /\ nodes = {}
    /\ rels = {}
    /\ nextId = 0
    /\ node_list = <<>>
    /\ merged = 0
    /\ fails = 0
    /\ lastBatch = NoBatch
    /\ recovered = FALSE
    /\ drink_unique_to_id = <<>>
    /\ herb_unique_to_id = <<>>
    /\ rel_list = <<>>
    /\ skipped_rel = 0
    /\ firstRun = NoRun

InitTokens ==
    /\ herb_str \in TokenInputs
    /\ tokens = "unset"
    /\ IngIdle
    /\ VecIdle
    /\ QaIdle

Tokenize ==
    /\ tokens = "unset"
    /\ tokens' = split_chinese_herbs(herb_str)
    /\ UNCHANGED <<herb_str, ingVars, vecVars, qaVars>>

NextTokens == Tokenize

SpecTokens == InitTokens /\ [][NextTokens]_vars

\* --------------------------- relationship building on any pair of mappings
\* A mapping over a subset of the keys of a column; the ids are the places of
\* the keys in one fixed enumeration (offset for the second column).
KeyIndex(T, k) ==
    LET p == CHOOSE q \in Perms(T) : TRUE
    IN  CHOOSE i \in 1..Cardinality(T) : p[i] = k

PartialMaps(T, offset) == {[k \in K |-> offset + KeyIndex(T, k)] : K \in SUBSET T}

NodesOf(map, label) == {[label |-> label, key |-> k, id |-> map[k]] : k \in DOMAIN map}

InitRel ==
    /\ cfg \in {c \in Configs : c.retry_times = 1 /\ c.batch_size = 1 /\ ~c.clear_db}
    /\ df_basic \in GoodFiles
    /\ drink_herb_data = df_basic.rows
    /\ drink_unique_to_id \in PartialMaps(ColumnTokens(drink_herb_data, "drink_unique_val"), 0)
    /\ herb_unique_to_id \in PartialMaps(ColumnTokens(drink_herb_data, "herbs_str"), 10)
    /\ nodes = NodesOf(drink_unique_to_id, drink_label) \cup NodesOf(herb_unique_to_id, herb_label)
    /\ nextId = 20
    /\ pc = "build_rels"
    /\ run = 1
    /\ exit = "none"
    /\ connOpen = TRUE
    /\ rels = {}
    /\ node_list = <<>>
    /\ merged = 0
    /\ fails = 0
    /\ lastBatch = NoBatch
    /\ recovered = FALSE
    /\ rel_list = <<>>
    /\ skipped_rel = 0
    /\ firstRun = NoRun
    /\ TokIdle
    /\ VecIdle
    /\ QaIdle

NextRel == BuildRels

SpecRel == InitRel /\ [][NextRel]_vars

\* ------------------------------------------------------------- search
\* get_embedding (lines 28-46) on the three things the embedding service can
\* do: answer 200 with a vector, answer another status, raise.  The result is
\* the vector ("vec") or None, and whether an exception leaves the function.
get_embedding_reraise(resp) ==
    IF resp = "ok" THEN [value |-> "vec", raised |-> FALSE]
    ELSE IF resp = "status_error" THEN [value |-> "None", raised |-> FALSE]
    ELSE [value |-> "None", raised |-> TRUE]

get_embedding(resp) ==
    IF resp = "ok" THEN [value |-> "vec", raised |-> FALSE]
    ELSE [value |-> "None", raised |-> FALSE]

EmbedResponses == {"ok", "status_error", "exception"}

\* db.index.vector.queryNodes(index, k, vector) (line 118): the k nodes of the
\* index nearest to the vector, nearest first; which of several equally near
\* nodes come first is the index's choice.
Indexed == {n \in Names : hasVec[n]}

QueryNodes(k) ==
    LET len == Min(k, Cardinality(Indexed))
    IN  {r \in [1..len -> Indexed] :
            /\ \A i, j \in 1..len : i # j => r[i] # r[j]
            /\ \A i, j \in 1..len : i < j => score[r[i]] >= score[r[j]]
            /\ \A n \in Indexed \ {r[i] : i \in 1..len} :
                   \A i \in 1..len : score[n] <= score[r[i]]}

\* A variant of the WHERE clause that keeps every row.
WhereScore_all(r, threshold) == r

\* WHERE score >= $threshold (line 120), the rows kept in order.
WhereScore(r, threshold) ==
    LET Keep(n) == score[n] >= threshold IN SelectSeq(r, Keep)

\* Lines 121-125: the rows as {name, score}.
Matches(r) == [i \in 1..Len(r) |-> [name |-> r[i], score |-> score[r[i]]]]

InitSearch ==
    /\ hasVec \in [Names -> BOOLEAN]
    /\ score \in [Names -> Levels]
    /\ \A n \in Names : ~hasVec[n] => score[n] = 0
    /\ top_k \in 1..MaxTopK
    /\ lastSearch = NoSearch
    /\ found = [t \in Levels |-> -1]
    /\ RefreshIdle
    /\ TokIdle
    /\ IngIdle
    /\ QaIdle

\* search (lines 106-126), one call: the embedding service answers `resp`, the
\* store answers the query (storeOk) or raises.
Search(threshold, resp, storeOk) ==
    LET e == get_embedding(resp)
        Call(queried, raised, matches) ==
            [called |-> TRUE, threshold |-> threshold, embed |-> resp,
             queried |-> queried, raised |-> raised, matches |-> matches]
    IN  /\ IF e.raised THEN lastSearch' = Call(FALSE, TRUE, <<>>)
           ELSE IF e.value = "None" THEN lastSearch' = Call(FALSE, FALSE, <<>>)
           ELSE IF ~storeOk THEN lastSearch' = Call(TRUE, TRUE, <<>>)
           ELSE \E r \in QueryNodes(top_k) :
                    lastSearch' = Call(TRUE, FALSE, Matches(WhereScore(r, threshold)))
        /\ found' = IF lastSearch'.queried /\ ~lastSearch'.raised
                    THEN [found EXCEPT ![threshold] = Len(lastSearch'.matches)]
                    ELSE found
        /\ UNCHANGED <<hasVec, score, top_k, force_update, rPc, rNodes, rIdx, count,
                       rFailed, rWritten, ret, printed, tokVars, ingVars, qaVars>>

SearchOk == \E t \in Levels : Search(t, "ok", TRUE)
SearchEmbedFail == \E t \in Levels, resp \in EmbedResponses \ {"ok"} : Search(t, resp, TRUE)
SearchStoreError == \E t \in Levels : Search(t, "ok", FALSE)

NextSearch == SearchOk \/ SearchEmbedFail \/ SearchStoreError

SpecSearch == InitSearch /\ [][NextSearch]_vars

\* ------------------------------------------------- refresh_embeddings
\* The names in the order the store returns them, here ascending.
RECURSIVE Ascending(_)
Ascending(S) ==
    IF S = {} THEN <<>>
    ELSE LET least == CHOOSE x \in S : \A y \in S : x <= y
         IN  <<least>> \o Ascending(S \ {least})

\* Lines 75-81: the names selected.
Selected(force) == Ascending(IF force THEN Names ELSE {n \in Names : ~hasVec[n]})

\* A variant of the loop that stops at the first name whose embedding failed.
AfterSkip_break(idx, len) == len + 1

\* Lines 101-102: a name whose embedding failed is skipped and the loop goes on.
AfterSkip(idx, len) == idx + 1

InitRefresh ==
    /\ hasVec \in [Names -> BOOLEAN]
    /\ SearchIdle
    /\ RefreshIdle
    /\ TokIdle
    /\ IngIdle
    /\ QaIdle

\* Lines 73-87.
RefreshStart ==
    /\ rPc = "idle"
    /\ \E force \in BOOLEAN :
           /\ force_update' = force
           /\ rNodes' = Selected(force)
           /\ rPc' = IF Selected(force) = <<>> THEN "done" ELSE "loop"
           /\ ret' = IF Selected(force) = <<>> THEN NoneRet ELSE ret
    /\ UNCHANGED <<hasVec, score, top_k, lastSearch, found, rIdx, count, rFailed,
                   rWritten, printed, tokVars, ingVars, qaVars>>

\* Lines 91-100, the embedding and the write succeeding.
RefreshWrite ==
    /\ rPc = "loop"
    /\ rIdx <= Len(rNodes)
    /\ get_embedding("ok").value = "vec"
    /\ hasVec' = [hasVec EXCEPT ![rNodes[rIdx]] = TRUE]
    /\ count' = count + 1
    /\ rWritten' = rWritten \cup {rNodes[rIdx]}
    /\ rIdx' = rIdx + 1
    /\ UNCHANGED <<score, top_k, lastSearch, found, force_update, rPc, rNodes,
                   rFailed, ret, printed, tokVars, ingVars, qaVars>>

\* Lines 91-93, 101-102, the embedding failing.
RefreshSkip ==
    /\ rPc = "loop"
    /\ rIdx <= Len(rNodes)
    /\ \E resp \in EmbedResponses \ {"ok"} :
           LET e == get_embedding(resp)
           IN  /\ rPc' = IF e.raised THEN "raised" ELSE rPc
               /\ rIdx' = IF e.raised THEN rIdx ELSE AfterSkip(rIdx, Len(rNodes))
               /\ rFailed' = rFailed \cup {rNodes[rIdx]}
    /\ UNCHANGED <<hasVec, score, top_k, lastSearch, found, force_update, rNodes,
                   count, rWritten, ret, printed, tokVars, ingVars, qaVars>>

\* Lines 94-97, the store raising on the write: the exception leaves the
\* function.
RefreshWriteError ==
    /\ rPc = "loop"
    /\ rIdx <= Len(rNodes)
    /\ rPc' = "raised"
    /\ UNCHANGED <<hasVec, score, top_k, lastSearch, found, force_update, rNodes,
                   rIdx, count, rFailed, rWritten, ret, printed, tokVars, ingVars, qaVars>>

\* Line 104 and the end of the function: the count is printed, nothing is
\* returned.
RefreshEnd ==
    /\ rPc = "loop"
    /\ rIdx > Len(rNodes)
    /\ printed' = IntRet(count)
    /\ ret' = NoneRet
    /\ rPc' = "done"
    /\ UNCHANGED <<hasVec, score, top_k, lastSearch, found, force_update, rNodes,
                   rIdx, count, rFailed, rWritten, tokVars, ingVars, qaVars>>

NextRefresh ==
    \/ RefreshStart
    \/ RefreshWrite
    \/ RefreshSkip
    \/ RefreshWriteError
    \/ RefreshEnd

SpecRefresh == InitRefresh /\ [][NextRefresh]_vars

\* ------------------------------------------- the question answering path
Questions == {"q1", "q2"}

\* What the language model may answer to the translation request: the query
\* bare, or inside a code fence.
\* The two code-fence markers (three backquotes, bare or followed by "cypher").
Fence == "fence"
CypherFence == "fence_cypher"
LlmContents ==
    { <<"MATCH">>, <<CypherFence, "MATCH", Fence>>, <<Fence, "MATCH", Fence>> }

\* Line 87: the fence markers removed.
CleanFences(content) ==
    LET Keep(w) == w # CypherFence /\ w # Fence IN SelectSeq(content, Keep)

\* The errors of the driver while a query runs.  Neo4jError is the class of
\* the errors the server reports (a malformed query, an incompatible
\* identifier or type, a transaction timed out); a lost connection or session
\* is a DriverError, which is no Neo4jError.
Neo4jErrors == {"CypherSyntaxError", "ClientError", "TransientError"}
DriverErrors == {"ServiceUnavailable", "SessionExpired"}

ExecOutcomes ==
    {[kind |-> "rows", n |-> n] : n \in 0..MaxRows}
        \cup {[kind |-> "error", exc |-> x] : x \in Neo4jErrors \cup DriverErrors}

\* Line 105: except Neo4jError.
Caught(exc) == exc \in Neo4jErrors

\* _execute_cypher (lines 95-107): the rows, [] for an error it catches, or
\* the exception it lets through.
execute_cypher(outcome) ==
    IF outcome.kind = "rows" THEN [data |-> [i \in 1..outcome.n |-> i], raised |-> "none"]
    ELSE IF Caught(outcome.exc) THEN [data |-> <<>>, raised |-> "none"]
    ELSE [data |-> <<>>, raised |-> outcome.exc]

\* A variant that asks the model whatever the rows are.
AsksModel_always(data) == TRUE

\* Line 113: the model is asked unless there is no row.
AsksModel(data) == data # <<>>

\* What vec_mgr.search(question, top_k=1, threshold=0.75) may return
\* (controller.py, line 45): no candidate, or the one best candidate.
SearchResults == {<<>>} \cup {<<[name |-> n, score |-> 2]>> : n \in Names}

\* Lines 47-54: the hint text, empty without a candidate.
MatchedInfo(matches) ==
    IF matches # <<>> THEN <<"hint", matches[1].name>> ELSE <<>>

InitQA ==
    /\ qPc = "search"
    /\ question \in Questions
    /\ matched_info = <<>>
    /\ llmCalls = <<>>
    /\ cypher = <<>>
    /\ execOutcome = NoOutcome
    /\ graph_data = <<>>
    /\ final_answer = "none"
    /\ qRaised = "none"
    /\ TokIdle
    /\ IngIdle
    /\ VecIdle

\* qa_interface up to the call of the engine (controller.py, lines 45-56): the
\* search returns no candidate or one, and the hint is built from it.
QaInterface ==
    /\ qPc = "search"
    /\ \E matches \in SearchResults : matched_info' = MatchedInfo(matches)
    /\ qPc' = "translate"
    /\ UNCHANGED <<question, llmCalls, cypher, execOutcome, graph_data, final_answer,
                   qRaised, tokVars, ingVars, vecVars>>

\* answer, step 1 (lines 148-151) with _get_cypher_from_llm (lines 76-92), the
\* model answering.
Translate ==
    /\ qPc = "translate"
    /\ llmCalls' = Append(llmCalls, [purpose |-> "translate", user |-> <<question>>])
    /\ \E content \in LlmContents : cypher' = CleanFences(content)
    /\ qPc' = "execute"
    /\ UNCHANGED <<question, matched_info, execOutcome, graph_data, final_answer,
                   qRaised, tokVars, ingVars, vecVars>>

\* The same, the model call failing: the exception is raised again by
\* _get_cypher_from_llm and answer returns the busy message.
TranslateFail ==
    /\ qPc = "translate"
    /\ llmCalls' = Append(llmCalls, [purpose |-> "translate", user |-> <<question>>])
    /\ final_answer' = "busy"
    /\ qPc' = "done"
    /\ UNCHANGED <<question, matched_info, cypher, execOutcome, graph_data, qRaised,
                   tokVars, ingVars, vecVars>>

\* answer, step 2 (lines 154-155) with _execute_cypher.
Execute ==
    /\ qPc = "execute"
    /\ \E outcome \in ExecOutcomes :
           LET r == execute_cypher(outcome)
           IN  /\ execOutcome' = outcome
               /\ graph_data' = r.data
               /\ qRaised' = r.raised
               /\ qPc' = IF r.raised = "none" THEN "synthesize" ELSE "done"
    /\ UNCHANGED <<question, matched_info, llmCalls, cypher, final_answer, tokVars,
                   ingVars, vecVars>>

\* answer, step 3 (lines 158-159) with _generate_natural_answer, lines 113-114.
SynthNotFound ==
    /\ qPc = "synthesize"
    /\ ~AsksModel(graph_data)
    /\ final_answer' = "not_found"
    /\ qPc' = "done"
    /\ UNCHANGED <<question, matched_info, llmCalls, cypher, execOutcome, graph_data,
                   qRaised, tokVars, ingVars, vecVars>>

\* The same, lines 116-139: the model is asked, and answers or fails.
SynthAsk ==
    /\ qPc = "synthesize"
    /\ AsksModel(graph_data)
    /\ llmCalls' = Append(llmCalls,
                          [purpose |-> "synthesize", user |-> <<question, graph_data>>])
    /\ \E ok \in BOOLEAN : final_answer' = IF ok THEN "generated" ELSE "synth_error"
    /\ qPc' = "done"
    /\ UNCHANGED <<question, matched_info, cypher, execOutcome, graph_data, qRaised,
                   tokVars, ingVars, vecVars>>

NextQA ==
    \/ QaInterface
    \/ Translate
    \/ TranslateFail
    \/ Execute
    \/ SynthNotFound
    \/ SynthAsk

SpecQA == InitQA /\ [][NextQA]_vars

\* =================================================================== claims

\* ---- C1 ----
\* C1 (retry bound): a batch is given up only after retry_times failed store
\* calls in a row, so a call that succeeds after retry_times - 1 failures
\* completes the batch and leaves the run without an error; retry_times
\* failures in a row are fatal: the run is in its finally clause or closed with
\* an error, and from then on the run executes no batch (the store and the
\* progress counters do not change).
C1_State ==
    /\ fails <= cfg.retry_times - 1
    /\ lastBatch.result = "ok" => lastBatch.fails <= cfg.retry_times - 1
    /\ lastBatch.result = "fatal" =>
           /\ lastBatch.fails = cfg.retry_times
           /\ exit = "error"
           /\ pc \in {"finally", "closed"}
    /\ (exit = "error" /\ lastBatch.result # "none") => lastBatch.result = "fatal"

C1_Step ==
    (exit = "error" /\ run' = run) =>
        /\ nodes' = nodes
        /\ rels' = rels
        /\ merged' = merged
        /\ lastBatch' = lastBatch

C1_RetryBound == [](C1_State) /\ [][C1_Step]_vars

\* A run in which one batch was done on its last allowed attempt, and a later
\* batch failed retry_times times and ended the run.
C1_Witness ==
    /\ recovered
    /\ exit = "error"
    /\ lastBatch.result = "fatal"
    /\ lastBatch.fails = cfg.retry_times
    /\ pc = "closed"

\* ---- C3 ----
\* The node phases of the current run are over.
NodePhasesDone ==
    \/ pc \in {"build_rels", "create_rels"}
    \/ /\ pc \in {"finally", "closed"}
       /\ \/ exit = "ok"
          \/ lastBatch.phase = "create_rels" /\ lastBatch.result = "fatal"

\* C3 (idempotence of node merge): the store never holds two nodes of the same
\* label and key; when the node phases of a second run on the same input are
\* over, the store holds as many nodes as after the first run, and (the
\* database not being cleared in between) both merges returned the mappings
\* they returned in the first run.
C3_Idempotent ==
    /\ \A n1, n2 \in nodes : (n1.label = n2.label /\ n1.key = n2.key) => n1 = n2
    /\ (firstRun.done /\ firstRun.run < run /\ NodePhasesDone) =>
           /\ Cardinality(nodes) = firstRun.count
           /\ ~cfg.clear_db =>
                  /\ drink_unique_to_id = firstRun.drinks
                  /\ herb_unique_to_id = firstRun.herbs

C3_Witness ==
    /\ firstRun.done
    /\ firstRun.run = 1
    /\ run = 2
    /\ NodePhasesDone
    /\ ~cfg.clear_db
    /\ Cardinality(nodes) = 5
    /\ drink_unique_to_id = firstRun.drinks
    /\ herb_unique_to_id = firstRun.herbs

\* ---- C4 ----
\* C4 (dedup across a column): the node list handed to a node merge holds
\* every token of the column, each once, whatever the rows repeat.
C4_Dedup ==
    pc \in {"merge_drinks", "merge_herbs"} =>
        /\ NoDup(node_list)
        /\ Range(node_list) =
               ColumnTokens(drink_herb_data,
                            IF pc = "merge_drinks" THEN "drink_unique_val" ELSE "herbs_str")

\* The rows "A,B,A" and "A,C" of the second column give the nodes A, B, C.
C4_Witness ==
    /\ pc = "merge_herbs"
    /\ Len(drink_herb_data) = 2
    /\ drink_herb_data[1].herbs_str = Str(<<"A", Delim, "B", Delim, "A">>)
    /\ drink_herb_data[2].herbs_str = Str(<<"A", Delim, "C">>)
    /\ Len(node_list) = 3
    /\ Range(node_list) = {<<"A">>, <<"B">>, <<"C">>}

\* ---- C2 ----
\* The (row, primary, secondary) entries of the relations file.
Entries ==
    {<<i, d, h>> : i \in 1..Len(drink_herb_data),
                   d \in ColumnTokens(drink_herb_data, "drink_unique_val"),
                   h \in ColumnTokens(drink_herb_data, "herbs_str")}

RowEntries ==
    {e \in Entries :
        /\ e[2] \in Range(split_chinese_herbs(drink_herb_data[e[1]].drink_unique_val))
        /\ e[3] \in Range(split_chinese_herbs(drink_herb_data[e[1]].herbs_str))}

Resolved(e) == e[2] \in DOMAIN drink_unique_to_id /\ e[3] \in DOMAIN herb_unique_to_id

\* The rows that give no entry at all (a blank cell), each counted once.
BlankRows ==
    {i \in 1..Len(drink_herb_data) :
        \/ split_chinese_herbs(drink_herb_data[i].drink_unique_val) = <<>>
        \/ split_chinese_herbs(drink_herb_data[i].herbs_str) = <<>>}

RelsBuilt == pc \in {"create_rels", "finally"}

\* The half of C2 about what is enqueued: one relationship per entry whose two
\* keys are in the mappings, and none for any other entry.
C2_Enqueued ==
    RelsBuilt =>
        /\ Len(rel_list) = Cardinality({e \in RowEntries : Resolved(e)})
        /\ Range(rel_list) =
               {[src |-> drink_unique_to_id[e[2]], dst |-> herb_unique_to_id[e[3]]] :
                    e \in {x \in RowEntries : Resolved(x)}}

\* C2 (phase ordering of relationship building): an entry is enqueued if and
\* only if both its keys are in the mappings, and every entry with a key
\* missing from a mapping adds exactly one to the skipped counter (beside the
\* one counted for each row with a blank cell).
C2_SkippedPerEntry ==
    /\ C2_Enqueued
    /\ RelsBuilt =>
           skipped_rel = Cardinality({e \in RowEntries : ~Resolved(e)}) + Cardinality(BlankRows)

\* ---- C5 ----
IsBlankText(t) == \A i \in 1..Len(t) : t[i] = Space

\* What C5 holds of the code: the tokens returned are trimmed and none is
\* empty or blank.
C5_TrimmedNonBlank ==
    tokens # "unset" =>
        \A i \in 1..Len(tokens) : Strip(tokens[i]) = tokens[i] /\ ~IsBlankText(tokens[i])

\* C5 (token filtering): every token returned is trimmed, and none is empty,
\* blank or "nan", wherever in the field it stands.
C5_NoNanToken ==
    /\ C5_TrimmedNonBlank
    /\ tokens # "unset" => \A i \in 1..Len(tokens) : tokens[i] # NanText

\* ---- C6 ----
\* C6 (threshold monotonicity of search): a search that returns candidates
\* returns at most top_k of them, each with a score of at least the threshold,
\* in descending order of score; and of two searches of the same corpus with
\* the same query and top_k, the one with the higher threshold returns no more
\* candidates than the other.
C6_Threshold ==
    /\ \A i \in 1..Len(lastSearch.matches) :
           lastSearch.matches[i].score >= lastSearch.threshold
    /\ \A i, j \in 1..Len(lastSearch.matches) :
           i < j => lastSearch.matches[i].score >= lastSearch.matches[j].score
    /\ Len(lastSearch.matches) <= top_k
    /\ \A t1, t2 \in Levels :
           (t1 < t2 /\ found[t1] # -1 /\ found[t2] # -1) => found[t2] <= found[t1]

\* Three searches of one corpus: two candidates at the lowest threshold, one at
\* the middle one, none at the highest.
C6_Witness ==
    /\ found[0] = 2
    /\ found[1] = 1
    /\ found[2] = 0
    /\ Len(lastSearch.matches) = 2

\* ---- C7 ----
\* C7 (graceful search degradation): a search whose embedding call failed, by
\* a status other than 200 or by an exception, returned the empty list, raised
\* nothing, and sent no query to the store.
C7_Degrades ==
    (lastSearch.called /\ lastSearch.embed # "ok") =>
        /\ lastSearch.matches = <<>>
        /\ ~lastSearch.raised
        /\ ~lastSearch.queried

\* The embedding call raised in a search that would have had a candidate.
C7_Witness ==
    /\ lastSearch.called
    /\ lastSearch.embed = "exception"
    /\ lastSearch.matches = <<>>
    /\ \E n \in Indexed : score[n] >= lastSearch.threshold

\* ---- C10 ----
\* The part of C10 about the loop: when refresh_embeddings returns, every
\* selected name was processed, the names written are the selected names whose
\* embedding did not fail, each has its vector, and the counter is their number.
C10_Loop ==
    rPc = "done" =>
        /\ rWritten \cup rFailed = Range(rNodes)
        /\ rWritten \cap rFailed = {}
        /\ \A n \in rWritten : hasVec[n]
        /\ count = Cardinality(rWritten)

\* C10 as claimed: refresh_embeddings processes every selected name and returns
\* the number of names whose vector was written, 0 when there was none.
C10_ReturnsCount ==
    /\ C10_Loop
    /\ rPc = "done" => ret = IntRet(Cardinality(rWritten))

\* C10 as amended: refresh_embeddings processes every selected name, a failed
\* embedding skipping that name only; it returns None, and the number of names
\* written is what it prints at the end (nothing when no name was selected).
C10_PrintsCount ==
    /\ C10_Loop
    /\ rPc = "done" =>
           /\ ret = NoneRet
           /\ printed = IF rNodes = <<>> THEN NoRet ELSE IntRet(Cardinality(rWritten))

\* A name is written after an earlier name's embedding failed.
C10_Witness ==
    /\ rPc = "done"
    /\ Len(rNodes) >= 3
    /\ rNodes[1] \in rFailed
    /\ rNodes[2] \in rWritten
    /\ rNodes[3] \in rFailed
    /\ printed = IntRet(1)

\* ---- C8 ----
\* C8 (empty-result short-circuit): when the query gave no row, the store
\* having returned none or _execute_cypher having turned an error into the
\* empty list, answer returns the not-found message and the one request sent to
\* the language model is the translation.
C8_ShortCircuit ==
    (qPc = "done" /\ execOutcome # NoOutcome /\ qRaised = "none" /\ graph_data = <<>>) =>
        /\ final_answer = "not_found"
        /\ Len(llmCalls) = 1
        /\ llmCalls[1].purpose = "translate"

\* An error of the store was turned into the empty result and answered by the
\* not-found message.
C8_Witness ==
    /\ qPc = "done"
    /\ execOutcome = [kind |-> "error", exc |-> "CypherSyntaxError"]
    /\ graph_data = <<>>
    /\ final_answer = "not_found"

\* ---- C9 ----
CannedAnswers == {"busy", "not_found", "synth_error"}

\* C9 (execution failure degrades instead of raising): whatever error the
\* store raises while the query runs, _execute_cypher returns the empty list
\* and answer returns canned text; no error of the store leaves answer.
C9_NoStoreErrorEscapes ==
    (qPc = "done" /\ execOutcome # NoOutcome /\ execOutcome.kind = "error") =>
        /\ qRaised = "none"
        /\ graph_data = <<>>
        /\ final_answer \in CannedAnswers

\* What holds of the code: the errors the server reports are degraded.
C9_Neo4jErrorsDegrade ==
    (qPc = "done" /\ execOutcome # NoOutcome /\ execOutcome.kind = "error"
        /\ execOutcome.exc \in Neo4jErrors) =>
        /\ qRaised = "none"
        /\ graph_data = <<>>
        /\ final_answer = "not_found"

\* ---- C11 ----
\* The input main cannot ingest: a required column is missing, or there is no
\* row.
BadInput == MissingColumn(df_basic) \/ EmptyFrame(df_basic)

RunOver == pc \in {"finally", "closed"}

\* C11 (pre-flight validation): on an input that misses a required column or
\* is empty, the run aborts (it ends with an error) and no step of it changes
\* the store: no node is deleted, merged or created and no relationship is
\* created, whatever the configuration, clear_db included.
C11_Preflight ==
    /\ []((BadInput /\ RunOver) => exit = "error")
    /\ [][BadInput => (nodes' = nodes /\ rels' = rels)]_vars

\* What does hold on such an input: nothing is merged or created, and with
\* clear_db off the store is left as it was; the one step that changes the
\* store is the clearing of module 2, which comes before the file is read.
C11_NothingWritten ==
    [][BadInput =>
          /\ nodes' \subseteq nodes
          /\ rels' \subseteq rels
          /\ (~cfg.clear_db \/ pc # "clear") => (nodes' = nodes /\ rels' = rels)]_vars

\* A run with clear_db on, on a file without a required column, that ended
\* with an error after it emptied the store.
C11_Cleared ==
    /\ MissingColumn(df_basic)
    /\ cfg.clear_db
    /\ run = 1
    /\ pc = "closed"
    /\ exit = "error"
    /\ nextId = EarlierStore.nextId
    /\ nodes = {}
    /\ rels = {}

\* ---- C12 ----
\* Every batch of both node merges of the current run is done: every token
\* of each column is in the mapping its merge returned, under the id of its
\* node in the store.
NodeMergesComplete ==
    /\ exit = "none"
    /\ DOMAIN drink_unique_to_id = ColumnTokens(drink_herb_data, "drink_unique_val")
    /\ DOMAIN herb_unique_to_id = ColumnTokens(drink_herb_data, "herbs_str")
    /\ \A k \in DOMAIN drink_unique_to_id :
           [label |-> drink_label, key |-> k, id |-> drink_unique_to_id[k]] \in nodes
    /\ \A k \in DOMAIN herb_unique_to_id :
           [label |-> herb_label, key |-> k, id |-> herb_unique_to_id[k]] \in nodes

\* A node-merge batch of the current run was given up.
MergeFatal ==
    /\ lastBatch.result = "fatal"
    /\ lastBatch.phase \in {"merge_drinks", "merge_herbs"}

C12_State ==
    /\ pc = "create_rels" => NodeMergesComplete
    /\ MergeFatal => (RunOver /\ exit = "error" /\ rel_list = <<>>)
    /\ pc = "closed" => ~connOpen

C12_Step ==
    /\ ~(rels' \subseteq rels) => (pc = "create_rels" /\ NodeMergesComplete)
    /\ (MergeFatal /\ run' = run) => rels' = rels

\* C12 (node-before-relationship barrier): a relationship is created only in
\* the relationship phase, which is entered only when every batch of both
\* node merges is done; a node-merge batch given up ends the run with no
\* relationship enqueued or created in it, and the run goes on to close the
\* store connection.
C12_Barrier ==
    /\ [](C12_State)
    /\ [][C12_Step]_vars
    /\ (MergeFatal ~> (MergeFatal /\ pc = "closed" /\ ~connOpen))

\* A run whose first node merge was done in more than one batch, whose second
\* node merge was given up, and which is closed with the store holding the
\* nodes of the first merge and no relationship.
C12_Witness ==
    /\ run = 1
    /\ lastBatch = [phase |-> "merge_herbs", fails |-> cfg.retry_times, result |-> "fatal"]
    /\ cfg.batch_size = 1
    /\ Cardinality(DOMAIN drink_unique_to_id) = 2
    /\ pc = "closed"
    /\ ~connOpen
    /\ nodes # {}
    /\ rels = {}

\* ---- C13 ----
\* The translation requests sent so far.
TranslateCalls == {i \in 1..Len(llmCalls) : llmCalls[i].purpose = "translate"}

\* The request carries the hint beside the question.
CarriesHint(call) == \E j \in 2..Len(call.user) : call.user[j] = matched_info

\* C13 (the semantic hint reaches translation): when the search returned a
\* candidate, the translation request contains the hint built from it; when
\* it returned none, the request is built from the question alone.
C13_HintReachesTranslation ==
    \A i \in TranslateCalls :
        /\ matched_info # <<>> => CarriesHint(llmCalls[i])
        /\ matched_info = <<>> => llmCalls[i].user = <<question>>

\* What does hold: the translation request is built from the question alone,
\* whatever the search returned.
C13_QuestionAlone ==
    \A i \in TranslateCalls : llmCalls[i].user = <<question>>

\* A request whose search found a candidate, translated from the question
\* alone and answered.
C13_HintDropped ==
    /\ matched_info = MatchedInfo(<<[name |-> 1, score |-> 2]>>)
    /\ TranslateCalls = {1}
    /\ llmCalls[1].user = <<question>>
    /\ qPc = "done"
    /\ final_answer = "generated"
====
